---- MODULE Spec2Model ----
(***************************************************************************)
(* A model of the MPD protocol client (class MpdClient) of deno-gist.      *)
(*                                                                         *)
(* Text is modelled as sequences of one-character strings, so that the     *)
(* string operations of the code (startsWith, indexOf, substring, split,   *)
(* toLowerCase, parseInt, parseFloat, template literals) are computed      *)
(* character by character as the JavaScript operations compute them.       *)
(*                                                                         *)
(* JavaScript values are records [t, neg, n, s] with a type tag t:         *)
(*   "undefined", "string" (s = the characters), "number" (sign neg,       *)
(*   integer part n, fraction digits s), "NaN", "Date" (s = the text the   *)
(*   Date was constructed from) and "InvalidDate".                         *)
(***************************************************************************)
EXTENDS Integers, Sequences, FiniteSets, TLC

VARIABLES
    op,           \* the public method the caller invoked ("none" before the call)
    input,        \* the argument the caller gave that method
    command,      \* sendCommand's parameter `command`
    argument,     \* sendCommand's parameter `argument` (a value record)
    pc,           \* where the call is: idle, connect, write, read, done, failed
    connects,     \* number of Deno.connect attempts made
    written,      \* sequence of the byte strings written to the connection
    received,     \* lines the for-await loop has taken from the line stream
    result,       \* sendCommand's local `result`: the accumulated data lines
    outcome,      \* how the returned promise settled
    messageLine,  \* input of a direct parseMessageLine evaluation
    message,      \* its outcome
    library,      \* how the promise returned by getLibrary settled
    calls,        \* concurrent sendCommand calls: the local state of each
    streams,      \* per connection opened, the lines the server sent on it
    cache,        \* ExpiringCache.cache: key -> [value, expires]
    now,          \* Date.now(), in milliseconds
    timer,        \* the cleanup interval timer: "set" or "cleared"
    lastSet,      \* per key, the value of the latest set not yet deleted or cleared
    before,       \* the cache as it was before the latest cache operation
    lastOp        \* the latest cache operation and what it returned

\* the state of concurrent calls, and the state of the cache
concVars == <<calls, streams>>
cacheVars == <<cache, now, timer, lastSet, before, lastOp>>

vars == <<op, input, command, argument, pc, connects, written, received, result,
          outcome, messageLine, message, library, concVars, cacheVars>>

----------------------------------------------------------------------------
(* Bounds of the model *)

\* longest response (number of lines taken from the stream) explored
MaxLines == 3

\* longest value text of a line given to parseMessageLine
MaxValueLen == 4

\* number of sendCommand calls in flight at once on one client
NumCalls == 2

\* longest response on one connection when calls run concurrently
MaxConcLines == 2

\* seconds the clock of the cache runs for
MaxSeconds == 3

\* milliseconds in a second: the factor of ttl in ExpiringCache.set and ttl
MsPerSecond == 1000

----------------------------------------------------------------------------
(* Text constants *)

\* enum MpdSignal
VERSION == <<"O", "K", " ", "M", "P", "D">>
END == <<"O", "K">>
ERROR == <<"A", "C", "K">>

Cmd_status == <<"s", "t", "a", "t", "u", "s">>
Cmd_currentsong == <<"c", "u", "r", "r", "e", "n", "t", "s", "o", "n", "g">>
Cmd_playlistinfo == <<"p", "l", "a", "y", "l", "i", "s", "t", "i", "n", "f", "o">>
Cmd_lsinfo == <<"l", "s", "i", "n", "f", "o">>
Cmd_playid == <<"p", "l", "a", "y", "i", "d">>
Cmd_play == <<"p", "l", "a", "y">>
Cmd_pause == <<"p", "a", "u", "s", "e">>
Cmd_stop == <<"s", "t", "o", "p">>
Cmd_next == <<"n", "e", "x", "t">>
Cmd_previous == <<"p", "r", "e", "v", "i", "o", "u", "s">>
Cmd_repeat == <<"r", "e", "p", "e", "a", "t">>
Cmd_single == <<"s", "i", "n", "g", "l", "e">>
Cmd_random == <<"r", "a", "n", "d", "o", "m">>
Cmd_add == <<"a", "d", "d">>
Cmd_deleteid == <<"d", "e", "l", "e", "t", "e", "i", "d">>
Cmd_update == <<"u", "p", "d", "a", "t", "e">>
Cmd_clear == <<"c", "l", "e", "a", "r">>

\* the message of addSong's validation error
PlusSignMessage ==
    <<"T", "h", "e", " ", "p", "a", "t", "h", " ", "c", "a", "n", "n", "o", "t",
      " ", "c", "o", "n", "t", "a", "i", "n", " ", "a", " ", "\"", "+", "\"",
      " ", "s", "i", "g", "n">>

\* source keys of the switch in parseMessageLine
K_Id == <<"I", "d">>
K_Pos == <<"P", "o", "s">>
K_volume == <<"v", "o", "l", "u", "m", "e">>
K_repeat == <<"r", "e", "p", "e", "a", "t">>
K_random == <<"r", "a", "n", "d", "o", "m">>
K_single == <<"s", "i", "n", "g", "l", "e">>
K_consume == <<"c", "o", "n", "s", "u", "m", "e">>
K_playlist == <<"p", "l", "a", "y", "l", "i", "s", "t">>
K_directory == <<"d", "i", "r", "e", "c", "t", "o", "r", "y">>
K_Last_Modified == <<"L", "a", "s", "t", "-", "M", "o", "d", "i", "f", "i", "e", "d">>
K_Time == <<"T", "i", "m", "e">>
K_song == <<"s", "o", "n", "g">>
K_songid == <<"s", "o", "n", "g", "i", "d">>
K_time == <<"t", "i", "m", "e">>
K_elapsed == <<"e", "l", "a", "p", "s", "e", "d">>
K_bitrate == <<"b", "i", "t", "r", "a", "t", "e">>
K_audio == <<"a", "u", "d", "i", "o">>

\* output field names written by parseMessageLine
F_file == <<"f", "i", "l", "e">>
F_isDir == <<"i", "s", "D", "i", "r">>
F_lastModified == <<"l", "a", "s", "t", "M", "o", "d", "i", "f", "i", "e", "d">>
F_duration == <<"d", "u", "r", "a", "t", "i", "o", "n">>
F_songPos == <<"s", "o", "n", "g", "P", "o", "s">>
F_songId == <<"s", "o", "n", "g", "I", "d">>
F_elapsed == <<"e", "l", "a", "p", "s", "e", "d">>
F_bitRate == <<"b", "i", "t", "R", "a", "t", "e">>
F_sampleRate == <<"s", "a", "m", "p", "l", "e", "R", "a", "t", "e">>
F_sampleBits == <<"s", "a", "m", "p", "l", "e", "B", "i", "t", "s">>

----------------------------------------------------------------------------
(* JavaScript values *)

Undefined == [t |-> "undefined", neg |-> FALSE, n |-> 0, s |-> <<>>]
NaN == [t |-> "NaN", neg |-> FALSE, n |-> 0, s |-> <<>>]
InvalidDate == [t |-> "InvalidDate", neg |-> FALSE, n |-> 0, s |-> <<>>]
Str(chars) == [t |-> "string", neg |-> FALSE, n |-> 0, s |-> chars]
Num(i) == [t |-> "number", neg |-> i < 0, n |-> IF i < 0 THEN -i ELSE i, s |-> <<>>]

\* a number with a fraction; -0 and 0 are one value, as they are under ===
Frac(isNeg, whole, digits) ==
    [t |-> "number", neg |-> isNeg /\ (whole # 0 \/ digits # <<>>),
     n |-> whole, s |-> digits]

Digits == <<"0", "1", "2", "3", "4", "5", "6", "7", "8", "9">>

IsDigit(c) == \E i \in 1..10 : Digits[i] = c

DigitValue(c) == (CHOOSE i \in 1..10 : Digits[i] = c) - 1

\* what /\s/ matches, among the characters of the model
IsWhitespace(c) == c \in {" ", "\t"}

RECURSIVE NatToString(_)
\* the decimal digits of a natural number
NatToString(i) ==
    IF i < 10 THEN <<Digits[i + 1]>>
    ELSE NatToString(i \div 10) \o <<Digits[(i % 10) + 1]>>

\* the string a template literal `${v}` embeds for v
TemplateString(v) ==
    CASE v.t = "string" -> v.s
      [] v.t = "undefined" -> <<"u", "n", "d", "e", "f", "i", "n", "e", "d">>
      [] v.t = "NaN" -> <<"N", "a", "N">>
      [] v.t = "number" ->
            (IF v.neg THEN <<"-">> ELSE <<>>) \o NatToString(v.n)
            \o (IF v.s = <<>> THEN <<>> ELSE <<".">> \o v.s)
      [] OTHER -> v.s

\* ToBoolean, as the condition of ?: applies it
Truthy(v) ==
    CASE v.t = "string" -> v.s # <<>>
      [] v.t = "number" -> v.n # 0 \/ v.s # <<>>
      [] v.t = "undefined" -> FALSE
      [] v.t = "NaN" -> FALSE
      [] OTHER -> TRUE

----------------------------------------------------------------------------
(* String operations *)

\* String.prototype.startsWith
StartsWith(str, prefix) ==
    /\ Len(str) >= Len(prefix)
    /\ SubSeq(str, 1, Len(prefix)) = prefix

\* String.prototype.indexOf for a one-character needle: 0-based, -1 if absent
IndexOf(str, c) ==
    IF \E i \in 1..Len(str) : str[i] = c
    THEN (CHOOSE i \in 1..Len(str) :
            str[i] = c /\ \A j \in 1..(i - 1) : str[j] # c) - 1
    ELSE -1

Min(a, b) == IF a < b THEN a ELSE b
Max(a, b) == IF a > b THEN a ELSE b

\* String.prototype.substring(start, end): both clamped to 0..length
Substring(str, start, end) ==
    LET a == Min(Max(start, 0), Len(str))
        b == Min(Max(end, 0), Len(str))
    IN SubSeq(str, Min(a, b) + 1, Max(a, b))

\* String.prototype.substring(start)
SubstringFrom(str, start) == Substring(str, start, Len(str))

UpperCase == <<"A", "B", "C", "D", "E", "F", "G", "H", "I", "J", "K", "L", "M",
               "N", "O", "P", "Q", "R", "S", "T", "U", "V", "W", "X", "Y", "Z">>
LowerCase == <<"a", "b", "c", "d", "e", "f", "g", "h", "i", "j", "k", "l", "m",
               "n", "o", "p", "q", "r", "s", "t", "u", "v", "w", "x", "y", "z">>

\* String.prototype.toLowerCase
ToLowerCase(str) ==
    [i \in 1..Len(str) |->
        IF \E k \in 1..26 : UpperCase[k] = str[i]
        THEN LowerCase[CHOOSE k \in 1..26 : UpperCase[k] = str[i]]
        ELSE str[i]]

RECURSIVE SplitColonSpace(_)
\* String.prototype.split(/:\s/): cuts at EVERY colon followed by a whitespace
\* character and returns all the pieces
SplitColonSpace(str) ==
    LET cuts == {i \in 1..(Len(str) - 1) : str[i] = ":" /\ IsWhitespace(str[i + 1])}
    IN IF cuts = {} THEN <<str>>
       ELSE LET i == CHOOSE c \in cuts : \A d \in cuts : c <= d
            IN <<SubSeq(str, 1, i - 1)>>
               \o SplitColonSpace(SubSeq(str, i + 2, Len(str)))

RECURSIVE SplitColon(_)
\* String.prototype.split(":")
SplitColon(str) ==
    LET i == IndexOf(str, ":")
    IN IF i < 0 THEN <<str>>
       ELSE <<SubSeq(str, 1, i)>> \o SplitColon(SubSeq(str, i + 2, Len(str)))

\* array element access: undefined past the end
At(pieces, i) == IF i + 1 <= Len(pieces) THEN Str(pieces[i + 1]) ELSE Undefined

RECURSIVE TrimStart(_)
\* the leading white space parseInt and parseFloat skip
TrimStart(str) ==
    IF str # <<>> /\ IsWhitespace(str[1]) THEN TrimStart(Tail(str)) ELSE str

RECURSIVE DigitPrefix(_)
\* the longest prefix of str made of decimal digits
DigitPrefix(str) ==
    IF str # <<>> /\ IsDigit(str[1]) THEN <<str[1]>> \o DigitPrefix(Tail(str))
    ELSE <<>>

RECURSIVE DigitsToNat(_)
DigitsToNat(digits) ==
    IF digits = <<>> THEN 0
    ELSE DigitsToNat(SubSeq(digits, 1, Len(digits) - 1)) * 10
         + DigitValue(digits[Len(digits)])

RECURSIVE StripTrailingZeros(_)
StripTrailingZeros(digits) ==
    IF digits # <<>> /\ digits[Len(digits)] = "0"
    THEN StripTrailingZeros(SubSeq(digits, 1, Len(digits) - 1))
    ELSE digits

\* the sign parseInt and parseFloat accept after the white space
SignLen(str) == IF str # <<>> /\ str[1] \in {"+", "-"} THEN 1 ELSE 0

\* parseInt(v) in radix 10: ToString, skip white space, a sign, then the longest
\* run of digits; NaN when there is none.  (A "0x" prefix selects radix 16 in
\* JavaScript; no text of the model contains an "x" after a "0".)
ParseInt(v) ==
    LET str == TrimStart(TemplateString(v))
        body == SubSeq(str, SignLen(str) + 1, Len(str))
        digits == DigitPrefix(body)
    IN IF digits = <<>> THEN NaN
       ELSE Frac(SignLen(str) = 1 /\ str[1] = "-", DigitsToNat(digits), <<>>)

\* parseFloat(v): ToString, skip white space, a sign, then the longest prefix
\* of the form digits [. digits] or . digits; NaN when it holds no digit.
\* (Exponents and "Infinity" are JavaScript forms too; no text of the model
\* contains an "e" or "I" in such a position.)
ParseFloat(v) ==
    LET str == TrimStart(TemplateString(v))
        body == SubSeq(str, SignLen(str) + 1, Len(str))
        whole == DigitPrefix(body)
        rest == SubSeq(body, Len(whole) + 1, Len(body))
        fraction == IF rest # <<>> /\ rest[1] = "." THEN DigitPrefix(Tail(rest))
                    ELSE <<>>
    IN IF whole = <<>> /\ fraction = <<>> THEN NaN
       ELSE Frac(SignLen(str) = 1 /\ str[1] = "-", DigitsToNat(whole),
                 StripTrailingZeros(fraction))

\* new Date(v): a timestamp built from the text v; Invalid Date for undefined.
\* The calendar arithmetic of Date is not modelled: the timestamp is identified
\* by the text it was built from.
NewDate(v) ==
    IF v.t = "string" THEN [t |-> "Date", neg |-> FALSE, n |-> 0, s |-> v.s]
    ELSE InvalidDate

----------------------------------------------------------------------------
(* Messages: type MpdMessage = Record<string, ...>, a function from field   *)
(* names to values                                                          *)

EmptyMessage == [k \in {} |-> Undefined]

Field(name, v) == [k \in {name} |-> v]

\* a merge in which the value already in the target wins
ObjectAssign_KeepFirst(target, source) ==
    [k \in (DOMAIN target) \cup (DOMAIN source) |->
        IF k \in DOMAIN target THEN target[k] ELSE source[k]]

\* Object.assign(target, source)
ObjectAssign(target, source) ==
    [k \in (DOMAIN target) \cup (DOMAIN source) |->
        IF k \in DOMAIN source THEN source[k] ELSE target[k]]

\* the outcome of a parse: a list of messages, or a thrown TypeError
Returned(msgs) == [threw |-> FALSE, messages |-> msgs]
Thrown == [threw |-> TRUE, messages |-> <<>>]

IntegerKeys ==
    {K_Id, K_Pos, K_volume, K_repeat, K_random, K_single, K_consume, K_playlist}

\* MpdClient.parseMessageLine.  `if (!messageLine) result;` is an expression
\* statement without a return, so an empty line is processed like any other.
\* value is undefined when the split finds no separator; value.split then
\* throws a TypeError ("time" and "audio").
parseMessageLine(line) ==
    LET pieces == SplitColonSpace(line)
        key == pieces[1]
        value == At(pieces, 1)
    IN CASE key \in IntegerKeys ->
                Returned(<<Field(ToLowerCase(key), ParseInt(value))>>)
         [] key = K_directory ->
                Returned(<<ObjectAssign(Field(F_file, value), Field(F_isDir, Num(1)))>>)
         [] key = K_Last_Modified ->
                Returned(<<Field(F_lastModified, NewDate(value))>>)
         [] key = K_Time ->
                Returned(<<Field(F_duration, ParseFloat(value))>>)
         [] key = K_song ->
                Returned(<<Field(F_songPos, ParseInt(value))>>)
         [] key = K_songid ->
                Returned(<<Field(F_songId, ParseInt(value))>>)
         [] key = K_time ->
                IF value.t = "undefined" THEN Thrown
                ELSE Returned(<<Field(F_duration,
                                      ParseFloat(At(SplitColon(value.s), 1)))>>)
         [] key = K_elapsed ->
                Returned(<<Field(F_elapsed, ParseFloat(value))>>)
         [] key = K_bitrate ->
                Returned(<<Field(F_bitRate, ParseInt(value))>>)
         [] key = K_audio ->
                IF value.t = "undefined" THEN Thrown
                ELSE LET audio == SplitColon(value.s)
                     IN Returned(<<ObjectAssign(
                            Field(F_sampleRate, ParseInt(At(audio, 0))),
                            Field(F_sampleBits, ParseInt(At(audio, 1))))>>)
         [] OTHER ->
                Returned(<<Field(ToLowerCase(key), value)>>)

RECURSIVE parseObjectLoop(_, _)
\* the for loop of parseMessageObject, from the record built so far
parseObjectLoop(lines, record) ==
    IF lines = <<>> THEN Returned(<<record>>)
    ELSE LET one == parseMessageLine(lines[1])
         IN IF one.threw THEN Thrown
            ELSE parseObjectLoop(Tail(lines), ObjectAssign(record, one.messages[1]))

\* MpdClient.parseMessageObject
parseMessageObject(messageLines) == parseObjectLoop(messageLines, EmptyMessage)

\* the delimiter of parseMessageList: the first line up to and including its
\* first colon; the empty string when it has none (indexOf gives -1)
Delimiter(firstLine) == Substring(firstLine, 0, IndexOf(firstLine, ":") + 1)

RECURSIVE parseListLoop(_, _, _)
\* the for loop of parseMessageList.  `message` aliases the last element of
\* `result`, and is non-null exactly when result is non-empty.
parseListLoop(lines, delimiter, records) ==
    IF lines = <<>> THEN Returned(records)
    ELSE LET started == IF StartsWith(lines[1], delimiter)
                        THEN Append(records, EmptyMessage) ELSE records
             one == parseMessageLine(lines[1])
         IN IF started = <<>> THEN parseListLoop(Tail(lines), delimiter, started)
            ELSE IF one.threw THEN Thrown
            ELSE parseListLoop(Tail(lines), delimiter,
                    [started EXCEPT ![Len(started)] = ObjectAssign(@, one.messages[1])])

\* MpdClient.parseMessageList.  messageLines[0] is undefined for an empty
\* array, and undefined.substring throws a TypeError.
parseMessageList(messageLines) ==
    IF messageLines = <<>> THEN Thrown
    ELSE parseListLoop(messageLines, Delimiter(messageLines[1]), <<>>)

----------------------------------------------------------------------------
(* Inputs of the model *)

\* numbers the callers pass: playId(id), removeSong(id), setRepeat(state), ...
NumberArgs == {0, 1, 12}

\* paths the callers pass to addSong and to sendCommand("lsinfo", path)
PathArgs == {<<>>, <<"a">>, <<"+">>, <<"a", "+", "b">>, <<"a", " ", "b">>}

\* lines a server can send in answer to a command
ResponseLines ==
    { END,
      <<"O", "K", " ", "M", "P", "D", " ", "0", ".", "2", "3", ".", "5">>,
      <<"A", "C", "K", " ", "s", "o", "m", "e", " ", "e", "r", "r", "o", "r">>,
      <<"f", "i", "l", "e", ":", " ", "a">>,
      <<"f", "i", "l", "e", ":", " ", "b">>,
      <<"T", "i", "m", "e", ":", " ", "1", "0">>,
      <<"f", "i", "l", "e", ":", "b", ":", " ", "1">>,
      <<"d", "i", "r", "e", "c", "t", "o", "r", "y", ":", " ", "b">>,
      <<"x">> }

----------------------------------------------------------------------------
(* The call *)

\* how the promise of the call settled
Pending ==
    [kind |-> "pending", error |-> "", text |-> <<>>, mode |-> "", messages |-> <<>>]
Resolved(m, msgs) ==
    [kind |-> "resolved", error |-> "", text |-> <<>>, mode |-> m, messages |-> msgs]
Rejected(name, msg) ==
    [kind |-> "rejected", error |-> name, text |-> msg, mode |-> "", messages |-> <<>>]

\* no concurrent call was made
ConcIdle ==
    /\ calls = <<>>
    /\ streams = <<>>

\* new Map(): no entry
NoEntries == [k \in {} |-> [value |-> "", expires |-> 0]]

\* no cache was constructed
CacheIdle ==
    /\ cache = NoEntries
    /\ now = 0
    /\ timer = "cleared"
    /\ lastSet = NoEntries
    /\ before = NoEntries
    /\ lastOp = [op |-> "none", key |-> "", returned |-> "undefined"]

Init ==
    /\ op = "none"
    /\ input = Undefined
    /\ command = <<>>
    /\ argument = Undefined
    /\ pc = "idle"
    /\ connects = 0
    /\ written = <<>>
    /\ received = <<>>
    /\ result = <<>>
    /\ outcome = Pending
    /\ messageLine = <<>>
    /\ message = Returned(<<>>)
    /\ library = Pending
    /\ ConcIdle
    /\ CacheIdle

\* a command line that quotes the argument whether or not one was given
CommandLine_AlwaysQuoted(cmd, arg) ==
    cmd \o <<" ", "\"">> \o TemplateString(arg) \o <<"\"">>

\* const commandLine = argument ? `${command} "${argument}"` : command;
CommandLine(cmd, arg) ==
    IF Truthy(arg) THEN cmd \o <<" ", "\"">> \o TemplateString(arg) \o <<"\"">>
    ELSE cmd

\* sendCommand up to its first await: the command line is formed and
\* getConnection() starts the one Deno.connect of the call
Call(method, in, cmd, arg) ==
    /\ pc = "idle"
    /\ op' = method
    /\ input' = in
    /\ command' = cmd
    /\ argument' = arg
    /\ connects' = connects + 1
    /\ pc' = "connect"
    /\ UNCHANGED <<written, received, result, outcome, messageLine, message,
                   library, concVars, cacheVars>>

getStatus == Call("getStatus", Undefined, Cmd_status, Undefined)

getCurrentSong == Call("getCurrentSong", Undefined, Cmd_currentsong, Undefined)

getPlaylist == Call("getPlaylist", Undefined, Cmd_playlistinfo, Undefined)

playId == \E id \in NumberArgs : Call("playId", Num(id), Cmd_playid, Num(id))

play == Call("play", Undefined, Cmd_play, Undefined)

pause == Call("pause", Undefined, Cmd_pause, Undefined)

stop == Call("stop", Undefined, Cmd_stop, Undefined)

next == Call("next", Undefined, Cmd_next, Undefined)

previous == Call("previous", Undefined, Cmd_previous, Undefined)

setRepeat == \E state \in NumberArgs : Call("setRepeat", Num(state), Cmd_repeat, Num(state))

setSingle == \E state \in NumberArgs : Call("setSingle", Num(state), Cmd_single, Num(state))

setRandom == \E state \in NumberArgs : Call("setRandom", Num(state), Cmd_random, Num(state))

\* a check that misses a "+" in the first position
HasPlusSign_NotFirst(path) == IndexOf(path, "+") > 0

\* if (path.indexOf("+") >= 0)
HasPlusSign(path) == IndexOf(path, "+") >= 0

addSong ==
    \E path \in PathArgs :
        IF HasPlusSign(path)
        THEN /\ pc = "idle"
             /\ op' = "addSong"
             /\ input' = Str(path)
             /\ pc' = "failed"
             /\ outcome' = Rejected("Error", PlusSignMessage)
             /\ UNCHANGED <<command, argument, connects, written, received,
                            result, messageLine, message, library,
                            concVars, cacheVars>>
        ELSE Call("addSong", Str(path), Cmd_add, Str(path))

getLibrary ==
    \E path \in PathArgs : Call("getLibrary", Str(path), Cmd_lsinfo, Str(path))

removeSong == \E id \in NumberArgs : Call("removeSong", Num(id), Cmd_deleteid, Num(id))

updateLibrary == Call("updateLibrary", Undefined, Cmd_update, Undefined)

clearPlaylist == Call("clearPlaylist", Undefined, Cmd_clear, Undefined)

\* sendCommand is public: a caller may give it any verb and argument
sendCommand ==
    \E cmd \in {Cmd_lsinfo, Cmd_playlistinfo, Cmd_status},
       arg \in {Undefined} \cup {Num(i) : i \in NumberArgs} \cup {Str(p) : p \in PathArgs} :
        Call("sendCommand", arg, cmd, arg)

----------------------------------------------------------------------------
(* getLibrary: the comparator, localeCompare of util.ts, and Array.sort *)

\* the characters of the first class of localeCompare's regExp, in the order
\* of their character codes: white space and ~!@#$%^&*()-_+={}[]|<>,.?/\
Punctuation ==
    <<"\t", " ", "!", "#", "$", "%", "&", "(", ")", "*", "+", ",", "-", ".", "/",
      "<", "=", ">", "?", "@", "[", "\\", "]", "^", "_", "{", "|", "}", "~">>

\* characters of the last class (/./) that the model orders: their order under
\* String.prototype.localeCompare (CLDR root collation)
OtherCharacters == <<";", ":", "'", "\"">>

\* the position of c in the sequence, 0 when absent
PositionIn(chars, c) ==
    IF \E i \in 1..Len(chars) : chars[i] = c
    THEN CHOOSE i \in 1..Len(chars) : chars[i] = c
    ELSE 0

IsLetter(c) == PositionIn(UpperCase, c) > 0 \/ PositionIn(LowerCase, c) > 0

\* regExp.findIndex(v => v.test(c)): 0 punctuation, 1 digit, 2 letter, 3 any
\* other character, -1 for a line terminator (which /./ does not match)
ClassIndex(c) ==
    IF PositionIn(Punctuation, c) > 0 THEN 0
    ELSE IF IsDigit(c) THEN 1
    ELSE IF IsLetter(c) THEN 2
    ELSE IF c \in {"\n", "\r"} THEN -1
    ELSE 3

\* the result of localeCompare for two different characters of one class
CompareCharacters(aChar, bChar) ==
    LET aIndex == ClassIndex(aChar)
    IN CASE aIndex = 1 -> DigitValue(aChar) - DigitValue(bChar)
         [] aIndex = 2 ->
              IF PositionIn(LowerCase, ToLowerCase(<<aChar>>)[1])
                    < PositionIn(LowerCase, ToLowerCase(<<bChar>>)[1])
              THEN -1 ELSE 1
         [] aIndex = 3 ->
              IF PositionIn(OtherCharacters, aChar) < PositionIn(OtherCharacters, bChar)
              THEN -1 ELSE 1
         [] OTHER ->
              IF PositionIn(Punctuation, aChar) < PositionIn(Punctuation, bChar)
              THEN -1 ELSE 1

\* localeCompare(aStr, bStr) of util.ts, for two strings
localeCompare(aStr, bStr) ==
    LET differ == {i \in 1..Min(Len(aStr), Len(bStr)) : aStr[i] # bStr[i]}
    IN IF differ = {} THEN Len(aStr) - Len(bStr)
       ELSE LET i == CHOOSE d \in differ : \A e \in differ : d <= e
            IN IF ClassIndex(aStr[i]) # ClassIndex(bStr[i])
               THEN ClassIndex(aStr[i]) - ClassIndex(bStr[i])
               ELSE CompareCharacters(aStr[i], bStr[i])

\* a.file, a.isDir: undefined when the record has no such field
Get(record, name) == IF name \in DOMAIN record THEN record[name] ELSE Undefined

\* the comparator of getLibrary:
\*   if (a.isDir && !b.isDir) return -1;
\*   return localeCompare(a.file as string, b.file as string);
compare(a, b) ==
    IF Truthy(Get(a, F_isDir)) /\ ~Truthy(Get(b, F_isDir)) THEN -1
    ELSE localeCompare(Get(a, F_file).s, Get(b, F_file).s)

\* the comparator throws a TypeError: localeCompare reads .length of a file
\* field that is undefined
compareThrows(a, b) ==
    /\ ~(Truthy(Get(a, F_isDir)) /\ ~Truthy(Get(b, F_isDir)))
    /\ Get(a, F_file).t # "string" \/ Get(b, F_file).t # "string"

\* the outcome of a sort: the array, or a thrown TypeError
Sorted(array) == [threw |-> FALSE, messages |-> array]

RECURSIVE RunLength(_, _, _)
\* Array.prototype.sort (V8, arrays shorter than 64): the length of the run
\* that starts the array, idx being the next element to compare with its
\* predecessor; -1 when the comparator throws
RunLength(array, idx, isDescending) ==
    IF idx > Len(array) THEN idx - 1
    ELSE IF compareThrows(array[idx], array[idx - 1]) THEN -1
    ELSE LET order == compare(array[idx], array[idx - 1])
         IN IF (isDescending /\ order >= 0) \/ (~isDescending /\ order < 0)
            THEN idx - 1
            ELSE RunLength(array, idx + 1, isDescending)

\* the array with its first n elements reversed
ReverseRange(array, n) ==
    [i \in 1..Len(array) |-> IF i <= n THEN array[n + 1 - i] ELSE array[i]]

RECURSIVE InsertionPoint(_, _, _, _)
\* the binary search of the insertion sort in array[left..right-1] (1-based,
\* right exclusive); 0 when the comparator throws
InsertionPoint(array, pivot, left, right) ==
    IF left >= right THEN left
    ELSE LET mid == left + ((right - left) \div 2)
         IN IF compareThrows(pivot, array[mid]) THEN 0
            ELSE IF compare(pivot, array[mid]) < 0
                 THEN InsertionPoint(array, pivot, left, mid)
                 ELSE InsertionPoint(array, pivot, mid + 1, right)

RECURSIVE BinaryInsertionSort(_, _)
\* the binary insertion sort that extends the sorted run array[1..start-1]
BinaryInsertionSort(array, start) ==
    IF start > Len(array) THEN Sorted(array)
    ELSE LET at == InsertionPoint(array, array[start], 1, start)
         IN IF at = 0 THEN Thrown
            ELSE BinaryInsertionSort(
                    [i \in 1..Len(array) |->
                        IF i < at \/ i > start THEN array[i]
                        ELSE IF i = at THEN array[start]
                        ELSE array[i - 1]],
                    start + 1)

\* list.sort(compare): the first run is found (and reversed when descending),
\* then the remaining elements are inserted by binary search
Sort(array) ==
    IF Len(array) < 2 THEN Sorted(array)
    ELSE IF compareThrows(array[2], array[1]) THEN Thrown
    ELSE LET isDescending == compare(array[2], array[1]) < 0
             run == RunLength(array, 3, isDescending)
         IN IF run < 0 THEN Thrown
            ELSE BinaryInsertionSort(
                    IF isDescending THEN ReverseRange(array, run) ELSE array,
                    run + 1)

\* getLibrary returns the sorted list, or fails as the comparator failed
SortReturn(sorted) ==
    IF sorted.threw THEN Rejected("TypeError", <<>>)
    ELSE Resolved("list", sorted.messages)

\* what getLibrary does with the settled promise of sendCommand: it sorts the
\* list, and fails when sendCommand or the comparator failed
Continue(settled) ==
    IF settled.kind # "resolved" THEN settled
    ELSE SortReturn(Sort(settled.messages))

\* the promise of getLibrary once sendCommand has settled; the other methods
\* do nothing more with the result
Awaited(settled) == IF op = "getLibrary" THEN Continue(settled) ELSE library

\* await this.getConnection() resolves
ConnectOk ==
    /\ pc = "connect"
    /\ pc' = "write"
    /\ UNCHANGED <<op, input, command, argument, connects, written, received,
                   result, outcome, messageLine, message, library,
                   concVars, cacheVars>>

\* a failed connection attempt that is made again instead of surfaced
ConnectFail_Retry ==
    /\ pc = "connect"
    /\ connects' = connects + 1
    /\ UNCHANGED <<op, input, command, argument, pc, written, received, result,
                   outcome, messageLine, message, library, concVars, cacheVars>>

\* await this.getConnection() rejects: Deno.connect failed
ConnectFail ==
    /\ pc = "connect"
    /\ pc' = "failed"
    /\ outcome' = Rejected("ConnectError", <<>>)
    /\ library' = Awaited(Rejected("ConnectError", <<>>))
    /\ UNCHANGED <<op, input, command, argument, connects, written, received,
                   result, messageLine, message, concVars, cacheVars>>

\* await conn.write(textEncoder.encode(`${commandLine}\n`))
Write ==
    /\ pc = "write"
    /\ written' = Append(written, CommandLine(command, argument) \o <<"\n">>)
    /\ pc' = "read"
    /\ UNCHANGED <<op, input, command, argument, connects, received, result,
                   outcome, messageLine, message, library, concVars, cacheVars>>

\* if (line === MpdSignal.END) break;
IsEnd(line) == line = END

\* a banner test by equality instead of by prefix
IsVersion_Exact(line) == line = VERSION

\* if (line.startsWith(MpdSignal.VERSION)) continue;
IsVersion(line) == StartsWith(line, VERSION)

\* if (line.startsWith(MpdSignal.ERROR))
IsError(line) == StartsWith(line, ERROR)

\* an error message cut without skipping the separator
ErrorMessage_KeepSeparator(line) == SubstringFrom(line, Len(ERROR))

\* const errorMessage = line.substring(MpdSignal.ERROR.length + 1);
ErrorMessage(line) == SubstringFrom(line, Len(ERROR) + 1)

\* if (command == 'playlistinfo' || command == 'lsinfo')
IsListCommand(cmd) == cmd = Cmd_playlistinfo \/ cmd = Cmd_lsinfo

\* sendCommand returns what the parser returned, or fails as the parser failed
ParseReturn(cmd, parsed) ==
    IF parsed.threw THEN Rejected("TypeError", <<>>)
    ELSE Resolved(IF IsListCommand(cmd) THEN "list" ELSE "object", parsed.messages)

\* what follows the loop: the accumulated lines are parsed, and the call
\* returns the parse or fails with the TypeError the parse threw
Parse(cmd, lines) ==
    ParseReturn(cmd, IF IsListCommand(cmd) THEN parseMessageList(lines)
                     ELSE parseMessageObject(lines))

\* the call settles with `settled`, and getLibrary goes on with it
Settle(settled) ==
    /\ outcome' = settled
    /\ library' = Awaited(settled)
    /\ pc' = IF settled.kind = "resolved" THEN "done" ELSE "failed"

\* what follows the loop, on the accumulated lines
Finish(lines) == Settle(Parse(command, lines))

\* one turn of the for-await loop on the next line of the stream, with what
\* follows the loop when the line ends it
ReadLine ==
    /\ pc = "read"
    /\ Len(received) < MaxLines
    /\ \E line \in ResponseLines :
        /\ received' = Append(received, line)
        /\ IF IsEnd(line) THEN
                /\ Finish(result)
                /\ UNCHANGED result
           ELSE IF IsVersion(line) THEN
                UNCHANGED <<pc, result, outcome, library>>
           ELSE IF IsError(line) THEN
                /\ pc' = "failed"
                /\ outcome' = Rejected("Error", ErrorMessage(line))
                /\ library' = Awaited(Rejected("Error", ErrorMessage(line)))
                /\ UNCHANGED result
           ELSE /\ result' = Append(result, line)
                /\ UNCHANGED <<pc, outcome, library>>
    /\ UNCHANGED <<op, input, command, argument, connects, written,
                   messageLine, message, concVars, cacheVars>>

\* the line stream ends (the server closed the connection): the for-await
\* loop ends and what follows the loop runs
EndOfStream ==
    /\ pc = "read"
    /\ Finish(result)
    /\ UNCHANGED <<op, input, command, argument, connects, written, received,
                   result, messageLine, message, concVars, cacheVars>>

Next ==
    \/ getStatus
    \/ getCurrentSong
    \/ getPlaylist
    \/ getLibrary
    \/ playId
    \/ play
    \/ pause
    \/ stop
    \/ next
    \/ previous
    \/ setRepeat
    \/ setSingle
    \/ setRandom
    \/ addSong
    \/ removeSong
    \/ updateLibrary
    \/ clearPlaylist
    \/ sendCommand
    \/ ConnectOk
    \/ ConnectFail
    \/ Write
    \/ ReadLine
    \/ EndOfStream

Spec == Init /\ [][Next]_vars

----------------------------------------------------------------------------
(* parseMessageLine on its own, over a space of lines *)

ValueChars == {"1", "a", ":", " ", "."}

RECURSIVE Texts(_)
\* every text of at most n characters of ValueChars
Texts(n) ==
    IF n = 0 THEN {<<>>}
    ELSE Texts(n - 1) \cup {Append(t, c) : t \in Texts(n - 1), c \in ValueChars}

\* keys a line can begin with: those of the switch, and others
LineKeys ==
    IntegerKeys \cup {K_directory, K_Last_Modified, K_Time, K_song, K_songid,
                      K_time, K_elapsed, K_bitrate, K_audio,
                      <<"T", "i", "t", "l", "e">>, F_file, <<>>}

\* key, then nothing or the separator, then a text
Lines ==
    {k \o sep \o v : k \in LineKeys, sep \in {<<>>, <<":", " ">>},
                     v \in Texts(MaxValueLen)}

InitLine ==
    /\ op = "none"
    /\ input = Undefined
    /\ command = <<>>
    /\ argument = Undefined
    /\ pc = "line"
    /\ connects = 0
    /\ written = <<>>
    /\ received = <<>>
    /\ result = <<>>
    /\ outcome = Pending
    /\ messageLine \in Lines
    /\ message = Returned(<<>>)
    /\ library = Pending
    /\ ConcIdle
    /\ CacheIdle

\* one evaluation of this.parseMessageLine(messageLine)
ParseLine ==
    /\ pc = "line"
    /\ message' = parseMessageLine(messageLine)
    /\ pc' = "parsed"
    /\ UNCHANGED <<op, input, command, argument, connects, written, received,
                   result, outcome, messageLine, library, concVars, cacheVars>>

NextLine == ParseLine

SpecLine == InitLine /\ [][NextLine]_vars

----------------------------------------------------------------------------
(* Properties of sendCommand and of the public methods, under Spec *)

\* the line begins with the error marker
BeginsWithACK(line) ==
    Len(line) >= 3 /\ line[1] = "A" /\ line[2] = "C" /\ line[3] = "K"

\* the line begins with the version banner
BeginsWithBanner(line) ==
    Len(line) >= 6 /\ SubSeq(line, 1, 6) = <<"O", "K", " ", "M", "P", "D">>

\* line i of the response is the first one that is the terminator or an
\* error line
FirstSignalAt(i) ==
    /\ i \in 1..Len(received)
    /\ received[i] = <<"O", "K">> \/ BeginsWithACK(received[i])
    /\ \A j \in 1..(i - 1) :
            received[j] # <<"O", "K">> /\ ~BeginsWithACK(received[j])

\* C1: when the response holds a line beginning with "ACK" before any line
\* equal to "OK", the call fails with an Error whose message is that line
\* after "ACK" and one separator character; nothing is returned, the data
\* lines accumulated before it are not parsed (the failure is the protocol
\* error, not one of the parser), and no later line is consumed.
C1_ErrorLineFailsCall ==
    \A i \in 1..Len(received) :
        (FirstSignalAt(i) /\ BeginsWithACK(received[i])) =>
            /\ pc = "failed"
            /\ outcome = Rejected("Error", SubSeq(received[i], 5, Len(received[i])))
            /\ outcome.messages = <<>>
            /\ Len(received) = i

\* a call that failed on an error line received after a banner and data lines
C1_Witness ==
    /\ pc = "failed"
    /\ Len(received) = 3
    /\ BeginsWithBanner(received[1])
    /\ result # <<>>
    /\ BeginsWithACK(received[3])
    /\ outcome.text = <<"s", "o", "m", "e", " ", "e", "r", "r", "o", "r">>

\* the lines before line i, in arrival order, without the banner lines
DataLinesBefore(i) ==
    SelectSeq(SubSeq(received, 1, i - 1), LAMBDA line : ~BeginsWithBanner(line))

\* C2: the first received line equal to "OK" ends the read cycle: no later
\* line is consumed, and the call settles with the parse of exactly the lines
\* received before it, in arrival order, without the lines beginning with
\* "OK MPD".
C2_TerminatorEndsCycle ==
    \A i \in 1..Len(received) :
        (FirstSignalAt(i) /\ received[i] = <<"O", "K">>) =>
            /\ Len(received) = i
            /\ pc \in {"done", "failed"}
            /\ outcome = Parse(command, DataLinesBefore(i))

\* a call that returned after a banner line, a data line and the terminator
C2_Witness ==
    /\ pc = "done"
    /\ Len(received) = 3
    /\ BeginsWithBanner(received[1])
    /\ received[3] = <<"O", "K">>
    /\ Len(result) = 1
    /\ outcome.kind = "resolved"
    /\ outcome.messages # <<>>

\* C3: for every verb and every argument the caller supplies (the number 0
\* included), sendCommand writes exactly verb "argument" and one newline.
C3_ArgumentAlwaysQuoted ==
    (written # <<>> /\ argument.t # "undefined") =>
        written = << command \o <<" ", "\"">> \o TemplateString(argument)
                     \o <<"\"", "\n">> >>

\* C4: for a verb sent with no argument, what is written is exactly the verb
\* followed by one newline.
C4_BareVerbLine ==
    (op # "none" /\ argument.t = "undefined") =>
        /\ written # <<>> => written = << command \o <<"\n">> >>
        /\ pc \in {"read", "done"} => written # <<>>

\* play() has written its command line
C4_Witness ==
    /\ op = "play"
    /\ pc = "read"
    /\ written = << <<"p", "l", "a", "y", "\n">> >>

\* the path contains the character "+"
ContainsPlus(path) == \E i \in 1..Len(path) : path[i] = "+"

\* C5: addSong with a path containing "+" fails with the validation error
\* before any I/O (no connection attempt, nothing written, nothing read);
\* with any other path the "add" command is dispatched to sendCommand.
C5_PlusRejectedBeforeIO ==
    op = "addSong" =>
        IF ContainsPlus(input.s)
        THEN /\ pc = "failed"
             /\ outcome.kind = "rejected"
             /\ outcome.error = "Error"
             /\ connects = 0
             /\ written = <<>>
             /\ received = <<>>
        ELSE /\ command = <<"a", "d", "d">>
             /\ argument = input
             /\ connects = 1
             /\ pc \in {"read", "done"} =>
                    (Len(written) = 1 /\ SubSeq(written[1], 1, 3) = <<"a", "d", "d">>)

\* addSong("+") was rejected
C5_Witness ==
    /\ op = "addSong"
    /\ input = Str(<<"+">>)
    /\ pc = "failed"
    /\ connects = 0

\* the first colon-space of the line, or 0
SeparatorAt(line) ==
    LET at == {i \in 1..(Len(line) - 1) : line[i] = ":" /\ line[i + 1] = " "}
    IN IF at = {} THEN 0 ELSE CHOOSE i \in at : \A j \in at : i <= j

\* the line has the shape key: value
WellFormed(line) == SeparatorAt(line) > 0

\* the raw source key of a well-formed line
RawKey(line) == SubSeq(line, 1, SeparatorAt(line) - 1)

\* the whole remainder of a well-formed line after its first colon-space
RawValue(line) == SubSeq(line, SeparatorAt(line) + 2, Len(line))

\* the records of C6: one per line whose raw key is that of the first line,
\* each the merge of that line and the lines up to the next such line
RecordsByDelimiterKey(lines) ==
    LET starts == {i \in 1..Len(lines) : RawKey(lines[i]) = RawKey(lines[1])}
        nth(k) == CHOOSE i \in starts : Cardinality({j \in starts : j <= i}) = k
        last(k) == IF k = Cardinality(starts) THEN Len(lines) ELSE nth(k + 1) - 1
    IN [k \in 1..Cardinality(starts) |->
            parseMessageObject(SubSeq(lines, nth(k), last(k))).messages[1]]

\* C6: in list mode the output holds exactly one record per data line whose
\* raw key equals the raw key of the first data line, in order, each holding
\* the fields of that line and of the lines up to the next such line.
\* (Stated for responses whose data lines all have the shape key: value.)
C6_OneRecordPerDelimiterKey ==
    (pc = "done" /\ outcome.mode = "list"
     /\ \A i \in 1..Len(result) : WellFormed(result[i])) =>
        outcome.messages = RecordsByDelimiterKey(result)

\* C7: an empty response (the terminator with no data line before it) makes
\* the call succeed, with an empty record in object mode and an empty
\* sequence in list mode.
C7_EmptyResponseSucceeds ==
    received = << <<"O", "K">> >> =>
        /\ pc = "done"
        /\ outcome = IF command \in {Cmd_playlistinfo, Cmd_lsinfo}
                     THEN Resolved("list", <<>>)
                     ELSE Resolved("object", <<EmptyMessage>>)

----------------------------------------------------------------------------
(* Properties of parseMessageLine, under SpecLine *)

\* C8: a line that is empty or has no colon-space separator yields no
\* fields: parseMessageLine returns an empty mapping and does not fail.
C8_MalformedLineYieldsNothing ==
    (pc = "parsed" /\ ~WellFormed(messageLine)) =>
        message = Returned(<<EmptyMessage>>)

\* the second and first ':'-components of a value
Component(value, i) == At(SplitColon(value), i)

\* the fields of the coercion table for a source key and a value text
TableFields(key, value) ==
    CASE key \in {K_Id, K_Pos, K_volume, K_repeat, K_random, K_single,
                  K_consume, K_playlist} ->
                Field(ToLowerCase(key), ParseInt(Str(value)))
      [] key = K_directory ->
                (F_file :> Str(value)) @@ (F_isDir :> Num(1))
      [] key = K_Last_Modified -> Field(F_lastModified, NewDate(Str(value)))
      [] key = K_Time -> Field(F_duration, ParseFloat(Str(value)))
      [] key = K_song -> Field(F_songPos, ParseInt(Str(value)))
      [] key = K_songid -> Field(F_songId, ParseInt(Str(value)))
      [] key = K_time -> Field(F_duration, ParseFloat(Component(value, 1)))
      [] key = K_elapsed -> Field(F_elapsed, ParseFloat(Str(value)))
      [] key = K_bitrate -> Field(F_bitRate, ParseInt(Str(value)))
      [] key = K_audio ->
                (F_sampleRate :> ParseInt(Component(value, 0)))
                @@ (F_sampleBits :> ParseInt(Component(value, 1)))
      [] OTHER -> Field(ToLowerCase(key), Str(value))

\* C9: for every well-formed line key: value, parseMessageLine produces
\* exactly the fields of the coercion table for that key and value.
C9_CoercionTable ==
    (pc = "parsed" /\ WellFormed(messageLine)) =>
        message = Returned(<<TableFields(RawKey(messageLine), RawValue(messageLine))>>)

\* C10: the line is split on its first colon-space only: the value is the
\* whole remainder of the line, further colon-spaces included.
C10_SplitOnFirstSeparatorOnly ==
    (pc = "parsed" /\ WellFormed(messageLine)
     /\ RawKey(messageLine) \in {<<"T", "i", "t", "l", "e">>, F_file}) =>
        message = Returned(<<Field(ToLowerCase(RawKey(messageLine)),
                                   Str(RawValue(messageLine)))>>)

----------------------------------------------------------------------------
(* Properties of parseMessageObject, under Spec *)

\* the decoded fields of one data line
FieldsOf(line) == parseMessageLine(line).messages[1]

\* C11: in object mode the returned record is the merge of the decoded fields
\* of every data line in source order: its keys are the union of the decoded
\* output fields, and a field produced by several lines has the value of the
\* last such line.
C11_ObjectModeLastWriteWins ==
    (pc = "done" /\ outcome.mode = "object") =>
        LET record == outcome.messages[1]
            producers(k) == {i \in 1..Len(result) : k \in DOMAIN FieldsOf(result[i])}
            lastOf(k) == CHOOSE i \in producers(k) : \A j \in producers(k) : j <= i
        IN /\ Len(outcome.messages) = 1
           /\ DOMAIN record = UNION {DOMAIN FieldsOf(result[i]) : i \in 1..Len(result)}
           /\ \A k \in DOMAIN record : record[k] = FieldsOf(result[lastOf(k)])[k]

\* getStatus returned a record for which two lines produced the field file
C11_Witness ==
    /\ pc = "done"
    /\ outcome.mode = "object"
    /\ result = << <<"f", "i", "l", "e", ":", " ", "a">>,
                   <<"T", "i", "m", "e", ":", " ", "1", "0">>,
                   <<"f", "i", "l", "e", ":", " ", "b">> >>
    /\ outcome.messages[1][F_file] = Str(<<"b">>)
    /\ DOMAIN outcome.messages[1] = {F_file, F_duration}

----------------------------------------------------------------------------
(* Properties of getLibrary, under Spec *)

\* the record is a directory entry
IsDirectory(record) == F_isDir \in DOMAIN record /\ record[F_isDir] = Num(1)

----------------------------------------------------------------------------
(* Properties of the I/O of one sendCommand call, under Spec *)

----------------------------------------------------------------------------
(* Properties of a response that ends without a terminator, under Spec *)

\* the call has settled after the stream ended with neither a terminator nor
\* an error line received
EndedWithoutSignal ==
    /\ pc \in {"done", "failed"}
    /\ written # <<>>
    /\ \A i \in 1..Len(received) :
            received[i] # <<"O", "K">> /\ ~BeginsWithACK(received[i])

\* C15: when the line stream ends before any line equal to "OK" and before
\* any line beginning with "ACK", sendCommand does not fail: it returns the
\* parse of the data lines accumulated so far.
C15_EndOfStreamReturns ==
    EndedWithoutSignal =>
        /\ pc = "done"
        /\ outcome.kind = "resolved"
        /\ outcome = Parse(command, DataLinesBefore(Len(received) + 1))

----------------------------------------------------------------------------
(* Concurrent sendCommand calls on one MpdClient.  Each call is an async    *)
(* function activation: command, argument, conn, result and lines are its   *)
(* parameters and locals; the client holds only hostname and port, which    *)
(* no method assigns after the constructor.                                 *)

CallIds == 1..NumCalls

\* the verb call c sends: odd calls an object-mode verb (getStatus), even
\* calls a list-mode one (getPlaylist)
ConcCommand(c) == IF c % 2 = 1 THEN Cmd_status ELSE Cmd_playlistinfo

\* lines a server can send on a connection
ConcLines ==
    { END,
      <<"A", "C", "K", " ", "e">>,
      <<"f", "i", "l", "e", ":", " ", "a">>,
      <<"f", "i", "l", "e", ":", " ", "b">> }

\* a call not yet made
IdleCall ==
    [command |-> <<>>, argument |-> Undefined, pc |-> "idle", conn |-> 0,
     written |-> <<>>, received |-> <<>>, result |-> <<>>, outcome |-> Pending]

InitConc ==
    /\ op = "none"
    /\ input = Undefined
    /\ command = <<>>
    /\ argument = Undefined
    /\ pc = "concurrent"
    /\ connects = 0
    /\ written = <<>>
    /\ received = <<>>
    /\ result = <<>>
    /\ outcome = Pending
    /\ messageLine = <<>>
    /\ message = Returned(<<>>)
    /\ library = Pending
    /\ calls = [c \in CallIds |-> IdleCall]
    /\ streams = <<>>
    /\ CacheIdle

\* a result array shared by the calls, as a field of the client would be
ResultOwner_Shared(c) == 1

\* the call whose `result` array call c pushes to and parses: `const result`
\* is a local of sendCommand, so each call has its own
ResultOwner(c) == c

ConcUnchanged ==
    UNCHANGED <<op, input, command, argument, pc, connects, written, received,
                result, outcome, messageLine, message, library, cacheVars>>

\* sendCommand(cmd) is called while other calls may be in flight
StartCall(c) ==
    /\ calls[c].pc = "idle"
    /\ calls' = [calls EXCEPT ![c].command = ConcCommand(c), ![c].pc = "connect"]
    /\ UNCHANGED streams
    /\ ConcUnchanged

\* Deno.connect resolves with a new connection
CallConnectOk(c) ==
    /\ calls[c].pc = "connect"
    /\ streams' = Append(streams, <<>>)
    /\ calls' = [calls EXCEPT ![c].conn = Len(streams) + 1, ![c].pc = "write"]
    /\ ConcUnchanged

\* Deno.connect rejects
CallConnectFail(c) ==
    /\ calls[c].pc = "connect"
    /\ calls' = [calls EXCEPT ![c].pc = "failed",
                              ![c].outcome = Rejected("ConnectError", <<>>)]
    /\ UNCHANGED streams
    /\ ConcUnchanged

\* await conn.write(...)
CallWrite(c) ==
    /\ calls[c].pc = "write"
    /\ calls' = [calls EXCEPT
            ![c].written = Append(@, CommandLine(calls[c].command, calls[c].argument)
                                     \o <<"\n">>),
            ![c].pc = "read"]
    /\ UNCHANGED streams
    /\ ConcUnchanged

\* the calls after call c has settled with `settled`
SettledWith(cs, c, settled) ==
    [cs EXCEPT ![c].outcome = settled,
               ![c].pc = IF settled.kind = "resolved" THEN "done" ELSE "failed"]

\* the calls after call c has settled with the parse of the accumulated lines
Settled(cs, c) == SettledWith(cs, c, Parse(cs[c].command, cs[ResultOwner(c)].result))

\* the server sends a line on the connection of call c, and the for-await
\* loop of call c takes it
CallReadLine(c) ==
    /\ calls[c].pc = "read"
    /\ Len(streams[calls[c].conn]) < MaxConcLines
    /\ \E line \in ConcLines :
        /\ streams' = [streams EXCEPT ![calls[c].conn] = Append(@, line)]
        /\ LET taken == [calls EXCEPT ![c].received = Append(@, line)]
           IN calls' =
                IF IsEnd(line) THEN Settled(taken, c)
                ELSE IF IsVersion(line) THEN taken
                ELSE IF IsError(line) THEN
                    [taken EXCEPT ![c].pc = "failed",
                                  ![c].outcome = Rejected("Error", ErrorMessage(line))]
                ELSE [taken EXCEPT ![ResultOwner(c)].result = Append(@, line)]
    /\ ConcUnchanged

\* the server closes the connection of call c
CallEndOfStream(c) ==
    /\ calls[c].pc = "read"
    /\ calls' = Settled(calls, c)
    /\ UNCHANGED streams
    /\ ConcUnchanged

NextConc ==
    \E c \in CallIds :
        \/ StartCall(c)
        \/ CallConnectOk(c)
        \/ CallConnectFail(c)
        \/ CallWrite(c)
        \/ CallReadLine(c)
        \/ CallEndOfStream(c)

SpecConc == InitConc /\ [][NextConc]_vars

RECURSIVE RunAlone(_, _, _)
\* the outcome of one call run on its own against the response `lines`
\* (ended by the stream's end when no line ends it), `data` being the data
\* lines met so far
RunAlone(cmd, lines, data) ==
    IF lines = <<>> THEN Parse(cmd, data)
    ELSE IF lines[1] = <<"O", "K">> THEN Parse(cmd, data)
    ELSE IF BeginsWithBanner(lines[1]) THEN RunAlone(cmd, Tail(lines), data)
    ELSE IF BeginsWithACK(lines[1])
         THEN Rejected("Error", SubSeq(lines[1], 5, Len(lines[1])))
    ELSE RunAlone(cmd, Tail(lines), Append(data, lines[1]))

----------------------------------------------------------------------------
(* ExpiringCache: a Map from keys to { value, expires }, expires being a    *)
(* JavaScript number of milliseconds, and an interval timer that runs       *)
(* cleanup until dispose clears it.                                         *)

\* JavaScript numbers: an integer or NaN
Number(n) == [nan |-> FALSE, n |-> n]
NaNNumber == [nan |-> TRUE, n |-> 0]
Plus(a, b) == IF a.nan \/ b.nan THEN NaNNumber ELSE Number(a.n + b.n)
Times(a, b) == IF a.nan \/ b.nan THEN NaNNumber ELSE Number(a.n * b.n)
\* a > b and a < b: false when either side is NaN
Greater(a, b) == ~a.nan /\ ~b.nan /\ a.n > b.n
Less(a, b) == ~a.nan /\ ~b.nan /\ a.n < b.n

CacheKeys == {"k1", "k2"}
CacheValues == {"v1", "v2"}
\* ttl arguments, in seconds: already over, one and two seconds, not a number
TtlArgs == {Number(0), Number(1), Number(2), NaNNumber}

\* Date.now()
DateNow == Number(now)

\* Map.prototype.set and Map.prototype.delete
MapSet(map, key, entry) ==
    [k \in DOMAIN map \cup {key} |-> IF k = key THEN entry ELSE map[k]]
MapDelete(map, key) == [k \in DOMAIN map \ {key} |-> map[k]]

\* Date.now() + ttl * 1000
Expires(seconds) == Plus(DateNow, Times(seconds, Number(MsPerSecond)))

InitCache ==
    /\ op = "none"
    /\ input = Undefined
    /\ command = <<>>
    /\ argument = Undefined
    /\ pc = "cache"
    /\ connects = 0
    /\ written = <<>>
    /\ received = <<>>
    /\ result = <<>>
    /\ outcome = Pending
    /\ messageLine = <<>>
    /\ message = Returned(<<>>)
    /\ library = Pending
    /\ ConcIdle
    /\ cache = NoEntries
    /\ now = 0
    /\ timer = "set"
    /\ lastSet = NoEntries
    /\ before = NoEntries
    /\ lastOp = [op |-> "new", key |-> "", returned |-> "undefined"]

CacheUnchanged ==
    UNCHANGED <<op, input, command, argument, pc, connects, written, received,
                result, outcome, messageLine, message, library, concVars>>

\* an entry that get would hand out although its expiry is the current time
IsLive_Inclusive(entry) == ~Less(entry.expires, DateNow)

\* entry.expires > Date.now()
IsLive(entry) == Greater(entry.expires, DateNow)

\* entry.expires < now
IsStale(entry) == Less(entry.expires, DateNow)

get ==
    \E key \in CacheKeys :
        /\ before' = cache
        /\ IF key \notin DOMAIN cache
           THEN /\ lastOp' = [op |-> "get", key |-> key, returned |-> "undefined"]
                /\ UNCHANGED cache
           ELSE IF IsLive(cache[key])
           THEN /\ lastOp' = [op |-> "get", key |-> key, returned |-> cache[key].value]
                /\ UNCHANGED cache
           ELSE /\ lastOp' = [op |-> "get", key |-> key, returned |-> "undefined"]
                /\ cache' = MapDelete(cache, key)
        /\ UNCHANGED <<now, timer, lastSet>>
        /\ CacheUnchanged

set ==
    \E key \in CacheKeys, value \in CacheValues, seconds \in TtlArgs :
        LET entry == [value |-> value, expires |-> Expires(seconds)]
        IN /\ cache' = MapSet(cache, key, entry)
           /\ lastSet' = MapSet(lastSet, key, entry)
           /\ before' = NoEntries
           /\ lastOp' = [op |-> "set", key |-> key, returned |-> "undefined"]
           /\ UNCHANGED <<now, timer>>
           /\ CacheUnchanged

ttl ==
    \E key \in CacheKeys, seconds \in TtlArgs :
        /\ IF key \notin DOMAIN cache
           THEN /\ lastOp' = [op |-> "ttl", key |-> key, returned |-> "false"]
                /\ UNCHANGED <<cache, lastSet>>
           ELSE /\ lastOp' = [op |-> "ttl", key |-> key, returned |-> "true"]
                /\ cache' = [cache EXCEPT ![key].expires = Expires(seconds)]
                /\ lastSet' = [lastSet EXCEPT ![key].expires = Expires(seconds)]
        /\ before' = NoEntries
        /\ UNCHANGED <<now, timer>>
        /\ CacheUnchanged

delete ==
    \E key \in CacheKeys :
        /\ cache' = MapDelete(cache, key)
        /\ lastSet' = MapDelete(lastSet, key)
        /\ before' = NoEntries
        /\ lastOp' = [op |-> "delete", key |-> key,
                      returned |-> IF key \in DOMAIN cache THEN "true" ELSE "false"]
        /\ UNCHANGED <<now, timer>>
        /\ CacheUnchanged

clear ==
    /\ cache' = NoEntries
    /\ lastSet' = NoEntries
    /\ before' = NoEntries
    /\ lastOp' = [op |-> "clear", key |-> "", returned |-> "undefined"]
    /\ UNCHANGED <<now, timer>>
    /\ CacheUnchanged

dispose ==
    /\ timer = "set"
    /\ timer' = "cleared"
    /\ before' = NoEntries
    /\ lastOp' = [op |-> "dispose", key |-> "", returned |-> "undefined"]
    /\ UNCHANGED <<cache, now, lastSet>>
    /\ CacheUnchanged

\* the interval timer fires
cleanup ==
    /\ timer = "set"
    /\ before' = cache
    /\ cache' = [k \in {x \in DOMAIN cache : ~IsStale(cache[x])} |-> cache[k]]
    /\ lastOp' = [op |-> "cleanup", key |-> "", returned |-> "undefined"]
    /\ UNCHANGED <<now, timer, lastSet>>
    /\ CacheUnchanged

\* a second passes
Tick ==
    /\ now < MaxSeconds * MsPerSecond
    /\ now' = now + MsPerSecond
    /\ before' = NoEntries
    /\ lastOp' = [op |-> "tick", key |-> "", returned |-> "undefined"]
    /\ UNCHANGED <<cache, timer, lastSet>>
    /\ CacheUnchanged

NextCache ==
    \/ get
    \/ set
    \/ ttl
    \/ delete
    \/ clear
    \/ dispose
    \/ cleanup
    \/ Tick

SpecCache == InitCache /\ [][NextCache]_vars

\* C16: get returns a value only when the key has an entry whose expiry, as
\* last written by set or ttl, is strictly greater than the current time, and
\* then the value of the latest set not followed by delete or clear;
\* otherwise it returns undefined, and an entry it found is removed.  cleanup
\* never removes an entry whose expiry is at or after the current time.
C16_GetAndCleanup ==
    /\ lastOp.op = "get" =>
        LET key == lastOp.key
            present == key \in DOMAIN before
        IN /\ present =>
                /\ key \in DOMAIN lastSet
                /\ before[key] = lastSet[key]
           /\ IF /\ present
                 /\ ~before[key].expires.nan
                 /\ before[key].expires.n > now
              THEN /\ lastOp.returned = lastSet[key].value
                   /\ cache = before
              ELSE /\ lastOp.returned = "undefined"
                   /\ key \notin DOMAIN cache
                   /\ \A k \in DOMAIN before \ {key} :
                        k \in DOMAIN cache /\ cache[k] = before[k]
    /\ lastOp.op = "cleanup" =>
        /\ DOMAIN cache \subseteq DOMAIN before
        /\ \A k \in DOMAIN before :
            (~before[k].expires.nan /\ before[k].expires.n >= now) =>
                k \in DOMAIN cache /\ cache[k] = before[k]

\* after the clock moved, get found an entry expiring at this very
\* millisecond, returned undefined and removed it
C16_Witness ==
    /\ lastOp.op = "get"
    /\ now > 0
    /\ lastOp.key \in DOMAIN before
    /\ before[lastOp.key].expires = Number(now)
    /\ lastOp.returned = "undefined"
    /\ lastOp.key \notin DOMAIN cache

====
